---- MODULE Spec2Model ----
(***************************************************************************)
(* EduTube Planner: the four-step flow of App.tsx (topic -> video ->       *)
(* assessment -> lesson plan) and the geminiService functions it awaits.   *)
(*                                                                         *)
(* Text values (topic, titles, urls, summaries, documents) are sequences   *)
(* of one-character strings, so that String.prototype.trim and the         *)
(* truthiness of a string are computed, not assumed.  React state that is  *)
(* `T | null` is a set holding at most one element.                        *)
(***************************************************************************)
EXTENDS Integers, Sequences, FiniteSets, TLC

\* ------------------------------------------------------------------ bounds
MaxBlocks == 2        \* "Video n" blocks in one search response
MaxAssessments == 2   \* assessment items in one analysis response
MaxPending == 2       \* collaborator requests that may be awaited at once
MaxOpened == 2        \* documents opened by the export

\* ------------------------------------------------------------ enumerations
\* types.ts AppStep
INPUT_TOPIC == 0
SELECT_VIDEO == 1
SELECT_ASSESSMENT == 2
VIEW_PLAN == 3

\* error banner texts of App.tsx (the Korean literals, named)
ErrNoResults == "no_results"
ErrSearch == "search_failed"
ErrAnalysis == "analysis_failed"
ErrPlan == "plan_failed"

\* a JavaScript `undefined` where a text value is expected
Undefined == <<"undefined">>

\* ------------------------------------------------------------------ strings
RECURSIVE TrimStart(_)
TrimStart(s) ==
  IF s # <<>> /\ Head(s) = " " THEN TrimStart(Tail(s)) ELSE s

RECURSIVE TrimEnd(_)
TrimEnd(s) ==
  IF s # <<>> /\ s[Len(s)] = " " THEN TrimEnd(SubSeq(s, 1, Len(s) - 1)) ELSE s

\* String.prototype.trim
Trim(s) == TrimEnd(TrimStart(s))

\* JavaScript truthiness of a string-or-undefined value
Truthy(s) == s # Undefined /\ s # <<>>

\* a React state value of type `T | null`, or an optional value: {} or {v}
The(opt) == CHOOSE v \in opt : TRUE

Min(a, b) == IF a < b THEN a ELSE b

\* ------------------------------------------------- geminiService: searchVideos
\* parseVideoResponse keeps at most this many entries (videos.slice(0, 5))
MaxResults == 5

\* A line of the response text, after line.trim():
\*   label   "video" when the lower-cased line starts with 'video', else the
\*           label prefix the line starts with ("" when it has none);
\*           Jemok:, Chaeneol:, Lingkeu:, Seolmyeong: stand for the Korean labels
\*   rest    the text that follows the label prefix
\*   digits  the counter values whose decimal text occurs in the line
\*   length  the number of characters of the line
TitleLabels == {"Title:", "Jemok:"}
ChannelLabels == {"Channel:", "Chaeneol:"}
UrlLabels == {"URL:", "Link:", "Lingkeu:"}
DescriptionLabels == {"Description:", "Seolmyeong:"}

OtherLine == [label |-> "", rest |-> <<>>, digits |-> {}, length |-> 0]

\* text.split('\n'): the empty text is one empty line
Split(text) == IF text = <<>> THEN <<OtherLine>> ELSE text

\* let currentVideo: Partial<VideoRecommendation> = {}
EmptyVideo ==
  [title |-> Undefined, channel |-> Undefined, url |-> Undefined,
   description |-> Undefined]

\* { ...currentVideo, id: counter - 1 }
WithId(currentVideo, id) ==
  [id |-> id, title |-> currentVideo.title, channel |-> currentVideo.channel,
   url |-> currentVideo.url, description |-> currentVideo.description]

\* the condition of the first branch of the loop body
IsMarker(line, counter) ==
  line.label = "video" /\ (counter \in line.digits \/ line.length < 10)

\* if (currentVideo.title && currentVideo.url)
IsComplete(currentVideo) == Truthy(currentVideo.title) /\ Truthy(currentVideo.url)

\* the for loop over the lines, followed by "push the last one"
RECURSIVE ParseLines(_, _, _, _)
ParseLines(lines, videos, currentVideo, counter) ==
  IF lines = <<>> THEN
    IF IsComplete(currentVideo)
    THEN Append(videos, WithId(currentVideo, counter - 1))
    ELSE videos
  ELSE
    LET line == Head(lines)
        more == Tail(lines)
    IN  IF IsMarker(line, counter) THEN
          IF IsComplete(currentVideo)
          THEN ParseLines(more, Append(videos, WithId(currentVideo, counter - 1)),
                          EmptyVideo, counter + 1)
          ELSE ParseLines(more, videos, currentVideo, counter + 1)
        ELSE IF line.label \in TitleLabels THEN
          ParseLines(more, videos,
                     [currentVideo EXCEPT !.title = Trim(line.rest)], counter)
        ELSE IF line.label \in ChannelLabels THEN
          ParseLines(more, videos,
                     [currentVideo EXCEPT !.channel = Trim(line.rest)], counter)
        ELSE IF line.label \in UrlLabels THEN
          ParseLines(more, videos,
                     [currentVideo EXCEPT !.url = Trim(line.rest)], counter)
        ELSE IF line.label \in DescriptionLabels THEN
          ParseLines(more, videos,
                     [currentVideo EXCEPT !.description = Trim(line.rest)], counter)
        ELSE ParseLines(more, videos, currentVideo, counter)

\* mutant of Renumber: the slice(0, 5) is left out
RenumberAll(videos) ==
  [i \in 1..Len(videos) |-> [videos[i] EXCEPT !.id = i]]

\* mutant of Renumber: the final map is left out, ids stay counter - 1
RenumberKeepsIds(videos) ==
  SubSeq(videos, 1, Min(Len(videos), MaxResults))

\* videos.slice(0, 5).map((v, i) => ({...v, id: i + 1}))
Renumber(videos) ==
  LET kept == SubSeq(videos, 1, Min(Len(videos), MaxResults))
  IN  [i \in 1..Len(kept) |-> [kept[i] EXCEPT !.id = i]]

parseVideoResponse(text) ==
  Renumber(ParseLines(Split(text), <<>>, EmptyVideo, 1))

\* What the collaborator does with a request: ok = FALSE when generateContent
\* throws, else text = {} (response.text undefined) or {the text}.
\* searchVideos: response.text || "" is parsed; a throw becomes a rejection.
searchVideos(response) ==
  IF response.ok
  THEN [ok |-> TRUE,
        videos |-> parseVideoResponse(IF response.text = {} THEN <<>>
                                      ELSE The(response.text))]
  ELSE [ok |-> FALSE, videos |-> <<>>]

\* ---------------------------------------- geminiService: analyzeVideoAndSuggest
\* The response text of the analysis request:
\*   kind  "empty" (the empty string), "malformed" (JSON.parse throws) or "json"
\*   data  the parsed value: [type |-> "null"] for the JSON null, else an object
\*         [type |-> "object", summary, assessments] (a number, string or array
\*         reads like an object without these two properties)
\*   data.summary      a text, or Undefined when the property is absent
\*   data.assessments  [type, items]: "absent", "falsy" (null, false, 0, ""),
\*                     "truthy" (a truthy value that is no array) or "array"
\*   an item           [id, title, description], id = {} when it carries none
EmptyObject ==
  [type |-> "object", summary |-> Undefined,
   assessments |-> [type |-> "absent", items |-> <<>>]]

\* response.text || "{}", then JSON.parse
JsonParse(text) ==
  IF text = {} \/ The(text).kind = "empty" THEN [ok |-> TRUE, data |-> EmptyObject]
  ELSE IF The(text).kind = "malformed" THEN [ok |-> FALSE, data |-> EmptyObject]
  ELSE [ok |-> TRUE, data |-> The(text).data]

\* mutant of MapAssessments: the spread written after the id, ({ id: index + 1, ...a }),
\* so that an item's own id wins
MapAssessmentsKeepsIds(field) ==
  LET items == IF field.type = "array" THEN field.items ELSE <<>>
  IN  [i \in 1..Len(items) |->
         [id |-> IF items[i].id = {} THEN i ELSE The(items[i].id),
          title |-> items[i].title, description |-> items[i].description]]

\* (data.assessments || []).map((a, index) => ({ ...a, id: index + 1 }))
MapAssessments(field) ==
  LET items == IF field.type = "array" THEN field.items ELSE <<>>
  IN  [i \in 1..Len(items) |->
         [id |-> i, title |-> items[i].title, description |-> items[i].description]]

\* the try block: a throw of generateContent, of JSON.parse, of reading a
\* property of null or of calling .map on a value that has none is caught and
\* rethrown, so the promise rejects
analyzeVideoAndSuggest(response) ==
  LET parsed == JsonParse(response.text)
      failed == [ok |-> FALSE, summary |-> Undefined, assessments |-> <<>>]
  IN  IF ~response.ok \/ ~parsed.ok THEN failed
      ELSE IF parsed.data.type = "null" THEN failed
      ELSE IF parsed.data.assessments.type = "truthy" THEN failed
      ELSE [ok |-> TRUE, summary |-> parsed.data.summary,
            assessments |-> MapAssessments(parsed.data.assessments)]

\* ------------------------------------------- geminiService: generateLessonPlan
\* the literal returned when response.text is empty or undefined
FallbackPlan == <<"fallback">>

\* mutant of generateLessonPlan: return response.text, without the fallback
generateLessonPlanNoFallback(response) ==
  IF ~response.ok THEN [ok |-> FALSE, plan |-> <<>>]
  ELSE IF response.text = {} THEN [ok |-> TRUE, plan |-> Undefined]
       ELSE [ok |-> TRUE, plan |-> The(response.text)]

\* return response.text || "<fallback>"; a throw becomes a rejection
generateLessonPlan(response) ==
  IF ~response.ok THEN [ok |-> FALSE, plan |-> <<>>]
  ELSE IF response.text = {} \/ The(response.text) = <<>>
       THEN [ok |-> TRUE, plan |-> FallbackPlan]
       ELSE [ok |-> TRUE, plan |-> The(response.text)]

\* ------------------------------------------------ the collaborator's answers
RECURSIVE Flatten(_)
Flatten(blocks) ==
  IF blocks = <<>> THEN <<>> ELSE Head(blocks) \o Flatten(Tail(blocks))

LabelLine(label, value) ==
  IF value = {} THEN <<>>
  ELSE <<[label |-> label, rest |-> The(value), digits |-> {}, length |-> 0]>>

\* "Video n" followed by the labelled lines the block body has
Block(n, body) ==
  <<[label |-> "video", rest |-> <<>>, digits |-> {n}, length |-> 7]>>
    \o LabelLine("Title:", body.title) \o LabelLine("Channel:", body.channel)
    \o LabelLine("URL:", body.url) \o LabelLine("Description:", body.description)

\* block bodies: a full one, one without channel and description, one without url
FullBody ==
  [title |-> {<<" ", "a">>}, channel |-> {<<" ", "a">>},
   url |-> {<<" ", "a">>}, description |-> {<<" ", "a">>}]
BareBody ==
  [title |-> {<<" ", "a", "a">>}, channel |-> {},
   url |-> {<<" ", "a", "a">>}, description |-> {}]
NoUrlBody ==
  [title |-> {<<" ", "a">>}, channel |-> {}, url |-> {}, description |-> {}]

\* the texts the search is answered with: k blocks of one body, and two mixed
SearchTexts ==
  { Flatten([i \in 1..k |-> Block(i, body)]) :
      k \in 0..MaxBlocks, body \in {FullBody, BareBody} }
    \cup { Block(1, FullBody) \o Block(2, BareBody),
           Block(1, NoUrlBody) \o Block(2, BareBody) }

SearchResponses ==
  {[ok |-> FALSE, text |-> {}], [ok |-> TRUE, text |-> {}]}
    \cup {[ok |-> TRUE, text |-> {t}] : t \in SearchTexts}

AssessmentItems ==
  { [id |-> {7}, title |-> <<"a">>, description |-> <<"a">>],
    [id |-> {}, title |-> <<"a", "a">>, description |-> <<>>] }

\* what data.assessments is: no array, k items of one kind, or one mixed array
AssessmentFields ==
  {[type |-> t, items |-> <<>>] : t \in {"absent", "falsy", "truthy"}}
    \cup { [type |-> "array", items |-> [i \in 1..k |-> item]] :
             k \in 0..MaxAssessments, item \in AssessmentItems }
    \cup { [type |-> "array",
            items |-> << [id |-> {7}, title |-> <<"a">>, description |-> <<"a">>],
                         [id |-> {}, title |-> <<"a", "a">>, description |-> <<>>] >>] }

AnalysisTexts ==
  { [kind |-> "empty", data |-> EmptyObject],
    [kind |-> "malformed", data |-> EmptyObject],
    [kind |-> "json", data |-> [type |-> "null", summary |-> Undefined,
                                assessments |-> [type |-> "absent", items |-> <<>>]]] }
    \cup { [kind |-> "json",
            data |-> [type |-> "object", summary |-> sm, assessments |-> af]]
           : sm \in {Undefined, <<"a">>}, af \in AssessmentFields }

AnalysisResponses ==
  {[ok |-> FALSE, text |-> {}], [ok |-> TRUE, text |-> {}]}
    \cup {[ok |-> TRUE, text |-> {t}] : t \in AnalysisTexts}

PlanResponses ==
  { [ok |-> FALSE, text |-> {}], [ok |-> TRUE, text |-> {}],
    [ok |-> TRUE, text |-> {<<>>}], [ok |-> TRUE, text |-> {<<"a">>}] }

\* -------------------------------------------------------------- App.tsx state
VARIABLES
  step,                \* useState<AppStep>
  topic,               \* useState('')
  isLoading,           \* useState(false)
  error,               \* useState<string | null>: {} or {message}
  videos,              \* useState<VideoRecommendation[]>
  selectedVideo,       \* useState<VideoRecommendation | null>: {} or {video}
  videoSummary,        \* useState<string>
  assessments,         \* useState<AssessmentOption[]>
  selectedAssessment,  \* useState<AssessmentOption | null>: {} or {option}
  lessonPlan,          \* useState<string>
  pending,             \* the awaited collaborator calls, oldest first
  lastEvent,           \* the handler or continuation that ran last (history)
  input,               \* the argument of a service function applied on its own
  output,              \* {} or {what the function returned for input}
  clipboardWrite,      \* {} or {the navigator.clipboard.write being awaited}
  clipboard,           \* {} or {what the system clipboard holds}
  opened               \* how many times window.open('https://docs.new') ran

dataVars ==
  <<topic, videos, selectedVideo, videoSummary, assessments, selectedAssessment,
    lessonPlan>>

vars ==
  <<step, topic, isLoading, error, videos, selectedVideo, videoSummary,
    assessments, selectedAssessment, lessonPlan, pending, lastEvent, input,
    output, clipboardWrite, clipboard, opened>>

NoResponse == [ok |-> FALSE, text |-> {}]

\* history only: which handler ran, whether confirm() returned true, whether
\* the settled call had been awaited across a confirmed reset, and the
\* collaborator's answer to it
Event(op, confirmed, stale, response) ==
  [op |-> op, confirmed |-> confirmed, stale |-> stale, response |-> response]

\* an awaited call and the arguments its handler passed; stale is history
Call(kind, t, videoTitle, videoUrl, assessmentTitle) ==
  [kind |-> kind, topic |-> t, videoTitle |-> videoTitle, videoUrl |-> videoUrl,
   assessmentTitle |-> assessmentTitle, stale |-> FALSE]

RemoveAt(seq, i) == SubSeq(seq, 1, i - 1) \o SubSeq(seq, i + 1, Len(seq))

Elems(seq) == {seq[i] : i \in 1..Len(seq)}

\* the useState initial values
FlowInit ==
  /\ step = INPUT_TOPIC
  /\ topic = <<>>
  /\ isLoading = FALSE
  /\ error = {}
  /\ videos = <<>>
  /\ selectedVideo = {}
  /\ videoSummary = <<>>
  /\ assessments = <<>>
  /\ selectedAssessment = {}
  /\ lessonPlan = <<>>
  /\ pending = <<>>
  /\ lastEvent = Event("init", FALSE, FALSE, NoResponse)

\* nothing copied and no document opened yet
ExportInit ==
  /\ clipboardWrite = {}
  /\ clipboard = {}
  /\ opened = 0

Init ==
  /\ FlowInit
  /\ ExportInit
  /\ input = <<>>
  /\ output = {}

\* mutant of ScreenRendered: the step screens stay mounted while loading
ScreenRenderedWhileLoading == TRUE

\* {isLoading ? renderLoading() : (<>...the step screens...</>)}
ScreenRendered == ~isLoading

\* mutant of IsBlank: the guard tests topic without trimming it
IsBlankUntrimmed(t) == t = <<>>

\* !topic.trim()
IsBlank(t) == Trim(t) = <<>>

\* what the user types into the topic field
TopicInputs == {<<>>, <<" ">>, <<"a">>, <<"a", " ">>}

\* <input onChange={(e) => setTopic(e.target.value)}> on the topic screen
SetTopic(t) ==
  /\ ScreenRendered /\ step = INPUT_TOPIC
  /\ topic' = t
  /\ lastEvent' = Event("setTopic", FALSE, FALSE, NoResponse)
  /\ UNCHANGED <<input, output, clipboardWrite, clipboard, opened>>
  /\ UNCHANGED <<step, isLoading, error, videos, selectedVideo, videoSummary,
                 assessments, selectedAssessment, lessonPlan, pending>>

\* handleTopicSubmit up to its await; the form's submit event reaches the
\* handler whatever the button's disabled state is
HandleTopicSubmit ==
  /\ ScreenRendered /\ step = INPUT_TOPIC
  /\ Len(pending) < MaxPending
  /\ lastEvent' = Event("handleTopicSubmit", FALSE, FALSE, NoResponse)
  /\ UNCHANGED <<input, output, clipboardWrite, clipboard, opened>>
  /\ IF IsBlank(topic)
     THEN UNCHANGED <<isLoading, error, pending>>
     ELSE /\ isLoading' = TRUE
          /\ error' = {}
          /\ pending' = Append(pending, Call("search", topic, Undefined, Undefined,
                                             Undefined))
  /\ UNCHANGED <<step, topic, videos, selectedVideo, videoSummary, assessments,
                 selectedAssessment, lessonPlan>>

\* mutant of SearchFulfilled: setVideos(results) moved above the length test
SearchFulfilledStoresEmpty(results) ==
  /\ videos' = results
  /\ IF Len(results) = 0
     THEN error' = {ErrNoResults} /\ UNCHANGED step
     ELSE step' = SELECT_VIDEO /\ UNCHANGED error

\* the try block of handleTopicSubmit after searchVideos resolved
SearchFulfilled(results) ==
  IF Len(results) = 0
  THEN /\ error' = {ErrNoResults}
       /\ UNCHANGED <<videos, step>>
  ELSE /\ videos' = results
       /\ step' = SELECT_VIDEO
       /\ UNCHANGED error

\* the catch block of handleTopicSubmit
SearchRejected ==
  /\ error' = {ErrSearch}
  /\ UNCHANGED <<videos, step>>

\* mutant of SearchSettled: setIsLoading(false) at the end of the try block
\* instead of in finally
SearchSettledNoFinally(i, response) ==
  /\ pending[i].kind = "search"
  /\ LET result == searchVideos(response)
     IN  /\ IF result.ok THEN SearchFulfilled(result.videos) ELSE SearchRejected
         /\ isLoading' = IF result.ok THEN FALSE ELSE isLoading
  /\ pending' = RemoveAt(pending, i)
  /\ lastEvent' = Event("searchSettled", FALSE, pending[i].stale, response)
  /\ UNCHANGED <<input, output, clipboardWrite, clipboard, opened>>
  /\ UNCHANGED <<topic, selectedVideo, videoSummary, assessments,
                 selectedAssessment, lessonPlan>>

\* handleTopicSubmit from its await on, finally included
SearchSettled(i, response) ==
  /\ pending[i].kind = "search"
  /\ LET result == searchVideos(response)
     IN  IF result.ok THEN SearchFulfilled(result.videos) ELSE SearchRejected
  /\ isLoading' = FALSE
  /\ pending' = RemoveAt(pending, i)
  /\ lastEvent' = Event("searchSettled", FALSE, pending[i].stale, response)
  /\ UNCHANGED <<input, output, clipboardWrite, clipboard, opened>>
  /\ UNCHANGED <<topic, selectedVideo, videoSummary, assessments,
                 selectedAssessment, lessonPlan>>

\* <VideoCard onSelect={setSelectedVideo}> for a card of the rendered list
SelectVideo(video) ==
  /\ ScreenRendered /\ step = SELECT_VIDEO
  /\ video \in Elems(videos)
  /\ selectedVideo' = {video}
  /\ lastEvent' = Event("selectVideo", FALSE, FALSE, NoResponse)
  /\ UNCHANGED <<input, output, clipboardWrite, clipboard, opened>>
  /\ UNCHANGED <<step, topic, isLoading, error, videos, videoSummary, assessments,
                 selectedAssessment, lessonPlan, pending>>

\* handleVideoSelect up to its await; the button is disabled while
\* selectedVideo is null, which is also the handler's early return
HandleVideoSelect ==
  /\ ScreenRendered /\ step = SELECT_VIDEO
  /\ selectedVideo # {}
  /\ Len(pending) < MaxPending
  /\ isLoading' = TRUE
  /\ error' = {}
  /\ pending' = Append(pending, Call("analyze", Undefined, The(selectedVideo).title,
                                     The(selectedVideo).url, Undefined))
  /\ lastEvent' = Event("handleVideoSelect", FALSE, FALSE, NoResponse)
  /\ UNCHANGED <<input, output, clipboardWrite, clipboard, opened>>
  /\ UNCHANGED <<step, topic, videos, selectedVideo, videoSummary, assessments,
                 selectedAssessment, lessonPlan>>

\* the try block of handleVideoSelect after analyzeVideoAndSuggest resolved
AnalysisFulfilled(result) ==
  /\ videoSummary' = result.summary
  /\ assessments' = result.assessments
  /\ step' = SELECT_ASSESSMENT
  /\ UNCHANGED error

\* mutant of AnalysisRejected: setStep moved out of the try block
AnalysisRejectedAdvances ==
  /\ error' = {ErrAnalysis}
  /\ step' = SELECT_ASSESSMENT
  /\ UNCHANGED <<videoSummary, assessments>>

\* the catch block of handleVideoSelect
AnalysisRejected ==
  /\ error' = {ErrAnalysis}
  /\ UNCHANGED <<videoSummary, assessments, step>>

\* handleVideoSelect from its await on, finally included
AnalysisSettled(i, response) ==
  /\ pending[i].kind = "analyze"
  /\ LET result == analyzeVideoAndSuggest(response)
     IN  IF result.ok THEN AnalysisFulfilled(result) ELSE AnalysisRejected
  /\ isLoading' = FALSE
  /\ pending' = RemoveAt(pending, i)
  /\ lastEvent' = Event("analysisSettled", FALSE, pending[i].stale, response)
  /\ UNCHANGED <<input, output, clipboardWrite, clipboard, opened>>
  /\ UNCHANGED <<topic, videos, selectedVideo, selectedAssessment, lessonPlan>>

\* <AssessmentCard onSelect={setSelectedAssessment}> for a card of the list
SelectAssessment(assessment) ==
  /\ ScreenRendered /\ step = SELECT_ASSESSMENT
  /\ assessment \in Elems(assessments)
  /\ selectedAssessment' = {assessment}
  /\ lastEvent' = Event("selectAssessment", FALSE, FALSE, NoResponse)
  /\ UNCHANGED <<input, output, clipboardWrite, clipboard, opened>>
  /\ UNCHANGED <<step, topic, isLoading, error, videos, selectedVideo, videoSummary,
                 assessments, lessonPlan, pending>>

\* handleAssessmentSelect up to its await; the button is disabled while
\* selectedAssessment is null, the handler also returns when selectedVideo is
HandleAssessmentSelect ==
  /\ ScreenRendered /\ step = SELECT_ASSESSMENT
  /\ selectedAssessment # {}
  /\ Len(pending) < MaxPending
  /\ lastEvent' = Event("handleAssessmentSelect", FALSE, FALSE, NoResponse)
  /\ UNCHANGED <<input, output, clipboardWrite, clipboard, opened>>
  /\ IF selectedVideo = {}
     THEN UNCHANGED <<isLoading, error, pending>>
     ELSE /\ isLoading' = TRUE
          /\ error' = {}
          /\ pending' = Append(pending, Call("plan", topic, The(selectedVideo).title,
                                             Undefined, The(selectedAssessment).title))
  /\ UNCHANGED <<step, topic, videos, selectedVideo, videoSummary, assessments,
                 selectedAssessment, lessonPlan>>

\* mutant of PlanFulfilled: setStep(AppStep.VIEW_PLAN) left out
PlanFulfilledStays(plan) ==
  /\ lessonPlan' = plan
  /\ UNCHANGED <<step, error>>

\* the try block of handleAssessmentSelect after generateLessonPlan resolved
PlanFulfilled(plan) ==
  /\ lessonPlan' = plan
  /\ step' = VIEW_PLAN
  /\ UNCHANGED error

\* the catch block of handleAssessmentSelect
PlanRejected ==
  /\ error' = {ErrPlan}
  /\ UNCHANGED <<lessonPlan, step>>

\* handleAssessmentSelect from its await on, finally included
PlanSettled(i, response) ==
  /\ pending[i].kind = "plan"
  /\ LET result == generateLessonPlan(response)
     IN  IF result.ok THEN PlanFulfilled(result.plan) ELSE PlanRejected
  /\ isLoading' = FALSE
  /\ pending' = RemoveAt(pending, i)
  /\ lastEvent' = Event("planSettled", FALSE, pending[i].stale, response)
  /\ UNCHANGED <<input, output, clipboardWrite, clipboard, opened>>
  /\ UNCHANGED <<topic, videos, selectedVideo, videoSummary, assessments,
                 selectedAssessment>>

\* the body of resetApp once confirm() returned true
ResetFields ==
  /\ step' = INPUT_TOPIC
  /\ topic' = <<>>
  /\ videos' = <<>>
  /\ selectedVideo' = {}
  /\ assessments' = <<>>
  /\ selectedAssessment' = {}
  /\ lessonPlan' = <<>>
  /\ error' = {}
  /\ UNCHANGED videoSummary

\* resetApp; its header button is rendered when step > AppStep.INPUT_TOPIC,
\* also while isLoading. An awaited call is not cancelled.
ResetApp(confirmed) ==
  /\ step > INPUT_TOPIC
  /\ IF confirmed
     THEN /\ ResetFields
          /\ pending' = [i \in 1..Len(pending) |-> [pending[i] EXCEPT !.stale = TRUE]]
     ELSE UNCHANGED <<step, topic, videos, selectedVideo, videoSummary, assessments,
                      selectedAssessment, lessonPlan, error, pending>>
  /\ lastEvent' = Event("resetApp", confirmed, FALSE, NoResponse)
  /\ UNCHANGED <<input, output, clipboardWrite, clipboard, opened>>
  /\ UNCHANGED isLoading

\* mutant of GoBack: setError(null) is left out
GoBackKeepsError ==
  /\ ScreenRendered /\ step \in {SELECT_VIDEO, SELECT_ASSESSMENT}
  /\ step' = IF step > 0 THEN step - 1 ELSE step
  /\ lastEvent' = Event("goBack", FALSE, FALSE, NoResponse)
  /\ UNCHANGED <<input, output, clipboardWrite, clipboard, opened>>
  /\ UNCHANGED <<topic, isLoading, error, videos, selectedVideo, videoSummary,
                 assessments, selectedAssessment, lessonPlan, pending>>

\* mutant of GoBack: the button is on the ViewPlan screen as well
GoBackFromViewPlan ==
  /\ ScreenRendered /\ step > INPUT_TOPIC
  /\ error' = {}
  /\ step' = step - 1
  /\ lastEvent' = Event("goBack", FALSE, FALSE, NoResponse)
  /\ UNCHANGED <<input, output, clipboardWrite, clipboard, opened>>
  /\ UNCHANGED <<topic, isLoading, videos, selectedVideo, videoSummary, assessments,
                 selectedAssessment, lessonPlan, pending>>

\* goBack; its button is on the SelectVideo and SelectAssessment screens
GoBack ==
  /\ ScreenRendered /\ step \in {SELECT_VIDEO, SELECT_ASSESSMENT}
  /\ error' = {}
  /\ step' = IF step > 0 THEN step - 1 ELSE step
  /\ lastEvent' = Event("goBack", FALSE, FALSE, NoResponse)
  /\ UNCHANGED <<input, output, clipboardWrite, clipboard, opened>>
  /\ UNCHANGED <<topic, isLoading, videos, selectedVideo, videoSummary, assessments,
                 selectedAssessment, lessonPlan, pending>>

\* the banner's close button, rendered whenever error is set
DismissError ==
  /\ error # {}
  /\ error' = {}
  /\ lastEvent' = Event("dismissError", FALSE, FALSE, NoResponse)
  /\ UNCHANGED <<input, output, clipboardWrite, clipboard, opened>>
  /\ UNCHANGED <<step, topic, isLoading, videos, selectedVideo, videoSummary,
                 assessments, selectedAssessment, lessonPlan, pending>>

\* <ReactMarkdown>{lessonPlan}</ReactMarkdown>: a leading "#" makes the rest
\* of the document a heading
IsHeading(plan) == plan # <<>> /\ Head(plan) = "#"

\* markdownRef.current.innerHTML
InnerHtml(plan) ==
  IF plan = <<>> THEN <<>>
  ELSE IF IsHeading(plan) THEN <<"<h1>">> \o Tail(plan) \o <<"</h1>">>
  ELSE <<"<p>">> \o plan \o <<"</p>">>

\* markdownRef.current.innerText
InnerText(plan) == IF IsHeading(plan) THEN Tail(plan) ELSE plan

\* the rendered markup wrapped in the styled div (the three replace calls
\* find no table in a heading or a paragraph)
HtmlContent(plan) ==
  <<"<div style>">> \o InnerHtml(plan) \o <<"</div>">>

\* what navigator.clipboard does with the two writes: the ClipboardItem is
\* written; it is refused and writeText is not; both are refused; or the
\* clipboard API is missing, so that the catch block throws as well
ClipboardOutcomes == {"written", "fallback", "refused", "unavailable"}

\* handleWriteToGoogleDocs up to its await; its button is on the plan screen,
\* where markdownRef.current is the rendered preview
HandleWriteToGoogleDocs ==
  /\ ScreenRendered /\ step = VIEW_PLAN
  /\ clipboardWrite = {} /\ opened < MaxOpened
  /\ clipboardWrite' = {[html |-> HtmlContent(lessonPlan),
                         text |-> InnerText(lessonPlan),
                         lessonPlan |-> lessonPlan]}
  /\ lastEvent' = Event("handleWriteToGoogleDocs", FALSE, FALSE, NoResponse)
  /\ UNCHANGED <<input, output, clipboard, opened>>
  /\ UNCHANGED <<step, topic, isLoading, error, videos, selectedVideo, videoSummary,
                 assessments, selectedAssessment, lessonPlan, pending>>

\* handleWriteToGoogleDocs from its await on: alert and window.open, or the
\* catch block with its writeText(lessonPlan), window.open and alert (a throw
\* before the await takes the same catch block)
ClipboardWriteSettled(outcome) ==
  /\ clipboardWrite # {}
  /\ LET write == The(clipboardWrite)
     IN  clipboard' =
           IF outcome = "written"
             THEN {[html |-> {write.html}, text |-> write.text]}
           ELSE IF outcome = "fallback"
             THEN {[html |-> {}, text |-> write.lessonPlan]}
           ELSE clipboard
  /\ opened' = IF outcome = "unavailable" THEN opened ELSE opened + 1
  /\ clipboardWrite' = {}
  /\ lastEvent' = Event("clipboardWriteSettled", FALSE, FALSE,
                        [ok |-> outcome = "written", text |-> {<<outcome>>}])
  /\ UNCHANGED <<input, output>>
  /\ UNCHANGED <<step, topic, isLoading, error, videos, selectedVideo, videoSummary,
                 assessments, selectedAssessment, lessonPlan, pending>>

Next ==
  \/ \E t \in TopicInputs : SetTopic(t)
  \/ HandleTopicSubmit
  \/ \E i \in 1..Len(pending), response \in SearchResponses : SearchSettled(i, response)
  \/ \E video \in Elems(videos) : SelectVideo(video)
  \/ HandleVideoSelect
  \/ \E i \in 1..Len(pending), response \in AnalysisResponses :
       AnalysisSettled(i, response)
  \/ \E assessment \in Elems(assessments) : SelectAssessment(assessment)
  \/ HandleAssessmentSelect
  \/ \E i \in 1..Len(pending), response \in PlanResponses : PlanSettled(i, response)
  \/ \E confirmed \in BOOLEAN : ResetApp(confirmed)
  \/ GoBack
  \/ DismissError

Spec == Init /\ [][Next]_vars

\* ------------------------------------------- parseVideoResponse on its own
MaxLines == 4         \* lines of a freely composed response text
MaxParseBlocks == 6   \* blocks of a response text made of well-formed blocks

Field(label, rest) == [label |-> label, rest |-> rest, digits |-> {}, length |-> 0]

\* the lines texts are composed of: "Video", "Video 2 - ..." (ten characters
\* or more), labelled lines in either language with and without a value, and
\* a line no branch recognises
ParseLineKinds ==
  { [label |-> "video", rest |-> <<>>, digits |-> {}, length |-> 5],
    [label |-> "video", rest |-> <<>>, digits |-> {2}, length |-> 12],
    Field("Title:", <<" ", "a">>), Field("Jemok:", <<" ">>),
    Field("Chaeneol:", <<" ", "a">>), Field("Link:", <<" ", "a">>),
    Field("URL:", <<>>),
    Field("Description:", <<" ", "a">>), OtherLine }

ParseTexts ==
  UNION {[1..n -> ParseLineKinds] : n \in 0..MaxLines}
    \cup UNION { { Flatten([i \in 1..k |-> Block(i, f[i])]) :
                     f \in [1..k -> {FullBody, BareBody, NoUrlBody}] }
                 : k \in 0..MaxParseBlocks }

InitParse ==
  /\ FlowInit
  /\ ExportInit
  /\ input \in ParseTexts
  /\ output = {}

\* parseVideoResponse(text) applied to the text
ParseVideoList ==
  /\ output = {}
  /\ output' = {parseVideoResponse(input)}
  /\ UNCHANGED <<step, topic, isLoading, error, videos, selectedVideo, videoSummary,
                 assessments, selectedAssessment, lessonPlan, pending, lastEvent,
                 input, clipboardWrite, clipboard, opened>>

NextParse == ParseVideoList

SpecParse == InitParse /\ [][NextParse]_vars

\* --------------------------------------- analyzeVideoAndSuggest on its own
MaxItems == 3

\* an element of data.assessments: with no id, or the id the model gave it
AnalysisItemKinds ==
  { [id |-> id, title |-> title, description |-> description] :
      id \in {{}, {1}, {2}}, title \in {<<"a">>, <<"b">>},
      description \in {<<>>, <<"c">>} }

\* data.assessments: absent, a falsy value, a truthy value that is no array
\* (a string, a number, an object), or an array of up to MaxItems elements
AnalysisFieldKinds ==
  {[type |-> t, items |-> <<>>] : t \in {"absent", "falsy", "truthy"}}
    \cup UNION { {[type |-> "array", items |-> items] :
                    items \in [1..n -> AnalysisItemKinds]} : n \in 0..MaxItems }

\* response.text of generateContent: undefined, "", no JSON, or a JSON value
AnalysisInputs ==
  {[ok |-> FALSE, text |-> {}], [ok |-> TRUE, text |-> {}]}
    \cup { [ok |-> TRUE, text |-> {[kind |-> kind, data |-> EmptyObject]}] :
             kind \in {"empty", "malformed"} }
    \cup { [ok |-> TRUE,
            text |-> {[kind |-> "json",
                       data |-> [type |-> "object", summary |-> summary,
                                 assessments |-> field]]}] :
             summary \in {Undefined, <<>>, <<"a">>},
             field \in AnalysisFieldKinds }
    \cup { [ok |-> TRUE,
            text |-> {[kind |-> "json",
                       data |-> [EmptyObject EXCEPT !.type = "null"]]}] }

InitAnalysis ==
  /\ FlowInit
  /\ ExportInit
  /\ input \in AnalysisInputs
  /\ output = {}

\* one call of analyzeVideoAndSuggest; output holds what the promise settles with
AnalyzeVideo ==
  /\ output = {}
  /\ output' = {analyzeVideoAndSuggest(input)}
  /\ UNCHANGED <<step, topic, isLoading, error, videos, selectedVideo, videoSummary,
                 assessments, selectedAssessment, lessonPlan, pending, lastEvent, input,
                 clipboardWrite, clipboard, opened>>

NextAnalysis == AnalyzeVideo

SpecAnalysis == InitAnalysis /\ [][NextAnalysis]_vars

\* ------------------------------------------------- one run through the steps
RunCandidates == 3
RunAssessments == 3

\* the search is answered with RunCandidates blocks that each have title and url
RunSearchResponses ==
  { [ok |-> TRUE, text |-> {Flatten([i \in 1..RunCandidates |-> Block(i, f[i])])}] :
      f \in [1..RunCandidates -> {FullBody, BareBody}] }

\* the analysis is answered with a summary and RunAssessments items
RunAnalysisResponses ==
  { [ok |-> TRUE,
     text |-> {[kind |-> "json",
                data |-> [type |-> "object", summary |-> summary,
                          assessments |-> [type |-> "array", items |-> items]]]}] :
      summary \in {<<"a">>, <<"b">>},
      items \in [1..RunAssessments -> AssessmentItems] }

\* the plan request is answered with a non-empty document
RunPlanResponses == {[ok |-> TRUE, text |-> {doc}] : doc \in {<<"a">>, <<"b">>}}

\* the user's and the collaborator's moves, in the order of the run
RunTypeTopic ==
  /\ lastEvent.op = "init"
  /\ \E t \in TopicInputs : ~IsBlank(t) /\ SetTopic(t)

RunSubmitTopic == lastEvent.op = "setTopic" /\ HandleTopicSubmit

RunSearchReturns ==
  /\ lastEvent.op = "handleTopicSubmit"
  /\ \E response \in RunSearchResponses : SearchSettled(1, response)

RunSelectVideo == lastEvent.op = "searchSettled" /\ SelectVideo(videos[2])

RunConfirmVideo == lastEvent.op = "selectVideo" /\ HandleVideoSelect

RunAnalysisReturns ==
  /\ lastEvent.op = "handleVideoSelect"
  /\ \E response \in RunAnalysisResponses : AnalysisSettled(1, response)

RunSelectAssessment ==
  lastEvent.op = "analysisSettled" /\ SelectAssessment(assessments[1])

RunConfirmAssessment == lastEvent.op = "selectAssessment" /\ HandleAssessmentSelect

RunPlanReturns ==
  /\ lastEvent.op = "handleAssessmentSelect"
  /\ \E response \in RunPlanResponses : PlanSettled(1, response)

NextRun ==
  \/ RunTypeTopic
  \/ RunSubmitTopic
  \/ RunSearchReturns
  \/ RunSelectVideo
  \/ RunConfirmVideo
  \/ RunAnalysisReturns
  \/ RunSelectAssessment
  \/ RunConfirmAssessment
  \/ RunPlanReturns

SpecRun == Init /\ [][NextRun]_vars

\* ------------------------------------------------- a run that ends in exports
\* the plan request is answered with a paragraph, a heading or no text
ExportPlanResponses ==
  {[ok |-> TRUE, text |-> {doc}] : doc \in {<<>>, <<"a">>, <<"#", "a">>}}

ExportPlanReturns ==
  /\ lastEvent.op = "handleAssessmentSelect"
  /\ \E response \in ExportPlanResponses : PlanSettled(1, response)

NextExport ==
  \/ RunTypeTopic
  \/ RunSubmitTopic
  \/ RunSearchReturns
  \/ RunSelectVideo
  \/ RunConfirmVideo
  \/ RunAnalysisReturns
  \/ RunSelectAssessment
  \/ RunConfirmAssessment
  \/ ExportPlanReturns
  \/ HandleWriteToGoogleDocs
  \/ \E outcome \in ClipboardOutcomes : ClipboardWriteSettled(outcome)

SpecExport == Init /\ [][NextExport]_vars

\* ------------------------------------------------------------------- claims
Settles == {"searchSettled", "analysisSettled", "planSettled"}

HasId(seq, id) == \E i \in 1..Len(seq) : seq[i].id = id

AllSpaces(s) == \A i \in 1..Len(s) : s[i] = " "

\* C1: the result of an analyzeVideo or generatePlan call that was awaited
\* across a confirmed reset is discarded: when it settles, step stays
\* InputTopic and candidates, analysis, plan and error stay as reset left them.
C1_StaleResultDiscarded ==
  [][ (lastEvent'.op \in {"analysisSettled", "planSettled"} /\ lastEvent'.stale)
        => /\ step' = INPUT_TOPIC
           /\ UNCHANGED <<step, videos, videoSummary, assessments, lessonPlan, error>>
    ]_vars

\* C2: whenever selectedVideo is set, the candidate list holds a candidate
\* with the same id.
C2_SelectedVideoInCandidates ==
  selectedVideo # {} => HasId(videos, The(selectedVideo).id)

\* C3: whenever selectedAssessment is set, the stored assessment list holds an
\* option with the same id.
C3_SelectedAssessmentInAnalysis ==
  selectedAssessment # {} => HasId(assessments, The(selectedAssessment).id)

\* C4: the stored plan is non-empty only when step is ViewPlan.
C4_PlanOnlyInViewPlan ==
  lessonPlan # <<>> => step = VIEW_PLAN

\* C4 witness: a plan has been stored on entering ViewPlan by a call that was
\* awaited across a reset, the one way into ViewPlan that skips steps.
C4_Witness ==
  /\ lastEvent.op = "planSettled" /\ lastEvent.stale
  /\ step = VIEW_PLAN /\ lessonPlan # <<>>

\* C5: a confirmed reset returns to InputTopic with topic, candidates,
\* selectedVideo, summary, assessments, selectedAssessment, plan and error all
\* empty; a reset that is not confirmed changes nothing.
C5_ResetClearsAll ==
  [][ lastEvent'.op = "resetApp"
        => IF lastEvent'.confirmed
           THEN /\ step' = INPUT_TOPIC
                /\ topic' = <<>> /\ videos' = <<>> /\ selectedVideo' = {}
                /\ videoSummary' = <<>> /\ assessments' = <<>>
                /\ selectedAssessment' = {} /\ lessonPlan' = <<>> /\ error' = {}
           ELSE UNCHANGED <<step, isLoading, error, dataVars, pending>>
    ]_vars

\* C6: at most one collaborator request is outstanding at any time.
C6_AtMostOneOutstanding == Len(pending) <= 1

\* C6 witness: a user action (a confirmed reset) was taken while a request
\* was outstanding.
C6_Witness ==
  /\ Len(pending) = 1
  /\ lastEvent.op = "resetApp" /\ lastEvent.confirmed

\* C7: every change of step is +1 by a settled request, -1 by goBack, or a
\* reset to InputTopic.
C7_StepsAreLinear ==
  [][ step' # step
        => \/ step' = step + 1 /\ lastEvent'.op \in Settles
           \/ step' = step - 1 /\ lastEvent'.op = "goBack"
           \/ step' = INPUT_TOPIC /\ lastEvent'.op = "resetApp"
    ]_vars

\* whether the call the last event settled failed, and the message it stores
C8_Failure(event) ==
  IF event.op = "searchSettled" /\ ~searchVideos(event.response).ok
    THEN {ErrSearch}
  ELSE IF event.op = "analysisSettled" /\ ~analyzeVideoAndSuggest(event.response).ok
    THEN {ErrAnalysis}
  ELSE IF event.op = "planSettled" /\ ~generateLessonPlan(event.response).ok
    THEN {ErrPlan}
  ELSE {}

\* C8: when the collaborator call of a transition fails, the failure is
\* stored in error, the loading flag is cleared, and step and all stored
\* data are unchanged.
C8_FailureKeepsState ==
  [][ C8_Failure(lastEvent') # {}
        => /\ error' = C8_Failure(lastEvent')
           /\ isLoading' = FALSE
           /\ UNCHANGED <<step, dataVars>>
    ]_vars

\* C8 witness: an analysis whose JSON did not parse has failed on SelectVideo,
\* with a selection and an earlier analysis in the store.
C8_Witness ==
  /\ lastEvent.op = "analysisSettled"
  /\ lastEvent.response.ok /\ lastEvent.response.text # {}
  /\ The(lastEvent.response.text).kind = "malformed"
  /\ step = SELECT_VIDEO /\ error = {ErrAnalysis} /\ ~isLoading
  /\ selectedVideo # {} /\ assessments # <<>>

\* C9: a settled search advances to SelectVideo and stores the returned
\* candidates exactly when it succeeded with at least one candidate; with zero
\* candidates it stores the "no results" error, stays on InputTopic and keeps
\* the stored candidate list.
C9_SearchOutcome ==
  [][ lastEvent'.op = "searchSettled"
        => LET result == searchVideos(lastEvent'.response)
           IN  /\ step = INPUT_TOPIC
               /\ IF result.ok /\ Len(result.videos) >= 1
                  THEN step' = SELECT_VIDEO /\ videos' = result.videos
                  ELSE step' = INPUT_TOPIC /\ videos' = videos
               /\ (result.ok /\ Len(result.videos) = 0) => error' = {ErrNoResults}
    ]_vars

\* C9 witness: a search that found nothing has settled while an earlier
\* search's candidates were stored.
C9_Witness ==
  /\ lastEvent.op = "searchSettled"
  /\ searchVideos(lastEvent.response).ok
  /\ searchVideos(lastEvent.response).videos = <<>>
  /\ step = INPUT_TOPIC /\ error = {ErrNoResults} /\ videos # <<>>

\* C10: a submit with an empty or whitespace-only topic issues no request,
\* does not set the loading flag and changes neither step, error nor data.
C10_BlankTopicRejected ==
  [][ (lastEvent'.op = "handleTopicSubmit" /\ AllSpaces(topic))
        => UNCHANGED <<step, isLoading, error, dataVars, pending>>
    ]_vars

\* C10 witness: a whitespace-only topic was submitted while an error and
\* earlier candidates were stored.
C10_Witness ==
  /\ lastEvent.op = "handleTopicSubmit"
  /\ topic = <<" ">>
  /\ error # {} /\ videos # <<>> /\ pending = <<>> /\ ~isLoading


\* C11: goBack runs on a step other than InputTopic, decrements step by one,
\* clears error, issues no request and leaves topic, candidates, selections
\* and analysis as they were.
C11_GoBackFrame ==
  [][ lastEvent'.op = "goBack"
        => /\ step # INPUT_TOPIC
           /\ step' = step - 1
           /\ error' = {}
           /\ pending' = pending /\ isLoading' = isLoading
           /\ UNCHANGED <<topic, videos, selectedVideo, videoSummary, assessments,
                          selectedAssessment>>
    ]_vars

\* C11 witness: goBack has returned to SelectVideo after an analysis was
\* stored, with the candidates and the selection still there.
C11_Witness ==
  /\ lastEvent.op = "goBack" /\ step = SELECT_VIDEO
  /\ videos # <<>> /\ selectedVideo # {} /\ assessments # <<>>
  /\ error = {} /\ pending = <<>>

\* the user actions of C12, each taken so that it is not itself rejected
C12_UserAction(event) ==
  \/ event.op \in {"selectVideo", "selectAssessment", "handleVideoSelect",
                   "goBack", "dismissError"}
  \/ event.op = "handleTopicSubmit" /\ ~AllSpaces(topic)
  \/ event.op = "handleAssessmentSelect" /\ selectedVideo # {}
  \/ event.op = "resetApp" /\ event.confirmed

\* C12: an error stored by a failed transition is cleared by the next user
\* action, whichever it is.
C12_ErrorClearedByNextAction ==
  [][ (error # {} /\ C12_UserAction(lastEvent')) => error' = {} ]_vars


\* ---- claims about parseVideoResponse, under SpecParse
\* the lines of the text, cut at the lines the loop takes for markers
RECURSIVE SplitBlocks(_, _, _)
SplitBlocks(lines, current, counter) ==
  IF lines = <<>> THEN <<current>>
  ELSE IF IsMarker(Head(lines), counter)
       THEN <<current>> \o SplitBlocks(Tail(lines), <<>>, counter + 1)
       ELSE SplitBlocks(Tail(lines), Append(current, Head(lines)), counter)

\* the value the last line of the block with one of the labels gives
RECURSIVE OwnValue(_, _)
OwnValue(block, labels) ==
  IF block = <<>> THEN Undefined
  ELSE IF block[Len(block)].label \in labels THEN Trim(block[Len(block)].rest)
  ELSE OwnValue(SubSeq(block, 1, Len(block) - 1), labels)

\* the fields the lines of one block give, and no others
OwnFields(block) ==
  [title |-> OwnValue(block, TitleLabels), channel |-> OwnValue(block, ChannelLabels),
   url |-> OwnValue(block, UrlLabels),
   description |-> OwnValue(block, DescriptionLabels)]

FieldsOf(video) ==
  [title |-> video.title, channel |-> video.channel, url |-> video.url,
   description |-> video.description]

HasLine(text, labels) == \E i \in 1..Len(text) : text[i].label \in labels

\* the blocks before the last that have a title and a channel but no url line
C13_DroppedBlocks(blocks) ==
  { b \in 1..(Len(blocks) - 1) :
      /\ Truthy(OwnFields(blocks[b]).title) /\ Truthy(OwnFields(blocks[b]).channel)
      /\ ~HasLine(blocks[b], UrlLabels) }

\* C13: a block with a title and a channel but no url line is dropped when the
\* next marker arrives and leaves no trace: every emitted candidate has
\* exactly the fields the lines of one of the other blocks give.
C13_DroppedBlockLeavesNoTrace ==
  LET blocks == SplitBlocks(Split(input), <<>>, 1)
      dropped == C13_DroppedBlocks(blocks)
  IN  (output # {} /\ dropped # {}) =>
        \A i \in 1..Len(The(output)) :
          \E b \in (1..Len(blocks)) \ dropped :
            FieldsOf(The(output)[i]) = OwnFields(blocks[b])

\* C14: at most 5 entries are returned, each with a non-empty title and url.
C14_AtMostFiveComplete ==
  output # {} =>
    /\ Len(The(output)) <= 5
    /\ \A i \in 1..Len(The(output)) :
         /\ The(output)[i].title \notin {Undefined, <<>>}
         /\ The(output)[i].url \notin {Undefined, <<>>}

\* C14 witness: a text with more than five complete blocks has been parsed.
C14_Witness ==
  /\ output # {} /\ Len(The(output)) = 5
  /\ Len(SplitBlocks(Split(input), <<>>, 1)) > 6
  /\ HasLine(input, UrlLabels)

\* C15: the ids of the returned entries are 1..N in order, whatever the
\* numbering of the text; the empty text gives the empty sequence.
C15_IdsSequential ==
  output # {} =>
    /\ \A i \in 1..Len(The(output)) : The(output)[i].id = i
    /\ input = <<>> => The(output) = <<>>

\* C15 witness: two entries were returned of which the second was pushed
\* under a number other than 2 (a block before it was dropped).
C15_Witness ==
  /\ output # {} /\ Len(The(output)) = 2
  /\ ParseLines(Split(input), <<>>, EmptyVideo, 1)[2].id # 2

\* C16: a candidate is emitted without a channel or description line, and
\* the field it has no line for is then the empty string.
C16_MissingFieldsDefaultEmpty ==
  output # {} =>
    /\ ~HasLine(input, ChannelLabels)
         => \A i \in 1..Len(The(output)) : The(output)[i].channel = <<>>
    /\ ~HasLine(input, DescriptionLabels)
         => \A i \in 1..Len(The(output)) : The(output)[i].description = <<>>


\* ---- claims about analyzeVideoAndSuggest

\* C17: when the parsed object has no assessments property, or one that is
\* no array, the call succeeds with an empty assessment sequence.
C17_LenientAssessments ==
  (/\ output # {} /\ input.ok /\ input.text # {}
   /\ The(input.text).kind = "json"
   /\ The(input.text).data.type = "object"
   /\ The(input.text).data.assessments.type # "array")
    => The(output).ok /\ The(output).assessments = <<>>

C18_EmptyObjectResponse(response) ==
  /\ response.ok
  /\ \/ response.text = {}
     \/ The(response.text).kind = "empty"
     \/ The(response.text).kind = "json" /\ The(response.text).data = EmptyObject

\* C18: an analysis answered with {} or with an empty text leaves the empty
\* string as summary and no assessments, and the stored summary is never the
\* undefined value.
C18_EmptyObjectGivesEmptySummary ==
  /\ (lastEvent.op = "analysisSettled" /\ C18_EmptyObjectResponse(lastEvent.response))
       => step = SELECT_ASSESSMENT /\ videoSummary = <<>> /\ assessments = <<>>
  /\ videoSummary # Undefined

\* C19: every returned assessment carries its 1-based position as id, whatever
\* id the item came with, and the items' titles, descriptions and order are
\* those of the array.
C19_IdsResequenced ==
  (/\ output # {} /\ input.ok /\ input.text # {}
   /\ The(input.text).kind = "json"
   /\ The(input.text).data.type = "object"
   /\ The(input.text).data.assessments.type = "array")
    => LET items == The(input.text).data.assessments.items
           result == The(output).assessments
       IN  /\ The(output).ok
           /\ Len(result) = Len(items)
           /\ \A i \in 1..Len(items) :
                /\ result[i].id = i
                /\ result[i].title = items[i].title
                /\ result[i].description = items[i].description

\* C19 witness: an array was mapped whose items came with a missing id, with
\* the same id twice, or with ids out of order.
C19_Witness ==
  /\ output # {} /\ The(output).ok /\ Len(The(output).assessments) >= 2
  /\ LET items == The(input.text).data.assessments.items
     IN  /\ items[1].title # items[2].title
         /\ \/ items[1].id = {} /\ items[2].id = {1}
            \/ items[1].id = items[2].id /\ items[1].id # {}
            \/ items[1].id = {2} /\ items[2].id = {1}

\* ---- claims about a whole run, under SpecRun

\* C20: once the plan of the run has come back, the plan screen shows the
\* returned document for candidate 2 and assessment 1, with no error and no
\* call awaited.
C20_RunEndsInViewPlan ==
  lastEvent.op = "planSettled" =>
    /\ step = VIEW_PLAN
    /\ lessonPlan = The(lastEvent.response.text) /\ lessonPlan # <<>>
    /\ Len(videos) = RunCandidates /\ selectedVideo = {videos[2]}
    /\ Len(assessments) = RunAssessments
    /\ \A i \in 1..Len(assessments) : assessments[i].id = i
    /\ selectedAssessment = {assessments[1]}
    /\ error = {} /\ ~isLoading /\ pending = <<>>

\* C20 witness: the run has reached its end on the plan screen.
C20_Witness ==
  /\ lastEvent.op = "planSettled" /\ step = VIEW_PLAN
  /\ topic # <<>> /\ The(selectedVideo).id = 2 /\ The(selectedAssessment).id = 1


\* ---- claims about the plan and its export

\* C21: a plan request that succeeds with an empty or missing text stores the
\* fallback document, and on the plan screen the stored plan is never empty.
C21_PlanNeverEmpty ==
  /\ step = VIEW_PLAN => lessonPlan # <<>> /\ lessonPlan # Undefined
  /\ (/\ lastEvent.op = "planSettled" /\ lastEvent.response.ok
      /\ (lastEvent.response.text = {} \/ The(lastEvent.response.text) = <<>>))
       => lessonPlan = FallbackPlan

\* C21 witness: the plan screen shows the fallback document after an empty answer.
C21_Witness ==
  /\ step = VIEW_PLAN /\ lessonPlan = FallbackPlan
  /\ lastEvent.op = "planSettled" /\ lastEvent.response.text = {<<>>}


\* C22: when the awaited clipboard write settles, no state of the flow
\* changes; a successful write puts both formats on the clipboard and opens
\* the blank document; a refused write is followed by a write of the plain
\* text of the rendered plan alone.
C22_ExportFallsBack ==
  [][ (clipboardWrite # {} /\ clipboardWrite' = {}) =>
        LET outcome == The(lastEvent'.response.text)
        IN  /\ UNCHANGED <<step, topic, isLoading, error, videos, selectedVideo,
                           videoSummary, assessments, selectedAssessment, lessonPlan>>
            /\ outcome = <<"written">> =>
                 /\ clipboard' = {[html |-> {HtmlContent(lessonPlan)},
                                   text |-> InnerText(lessonPlan)]}
                 /\ opened' = opened + 1
            /\ outcome = <<"fallback">> =>
                 clipboard' = {[html |-> {}, text |-> InnerText(lessonPlan)]}
    ]_vars


\* ---- claims about the arguments of the requests

\* C23: an analysis request carries the title and url of a candidate of the
\* list stored when it is issued.
C23_AnalysisOfListedCandidate ==
  [][ (lastEvent'.op = "handleVideoSelect" /\ Len(pending') > Len(pending)) =>
        LET call == pending'[Len(pending')]
        IN  \E video \in Elems(videos) :
              video.title = call.videoTitle /\ video.url = call.videoUrl
    ]_vars

\* C24: a plan request carries consistent arguments; here the part that its
\* assessment title is the title of an option of the stored analysis, and its
\* video title that of a listed candidate.
C24_PlanArgumentsConsistent ==
  [][ (lastEvent'.op = "handleAssessmentSelect" /\ Len(pending') > Len(pending)) =>
        LET call == pending'[Len(pending')]
        IN  /\ \E option \in Elems(assessments) : option.title = call.assessmentTitle
            /\ \E video \in Elems(videos) : video.title = call.videoTitle
    ]_vars


\* ---- claims about the loading flag

\* C25: isLoading is true exactly while a collaborator call is awaited; every
\* settled call leaves it false, and goBack, reset, a selection and the
\* dismissal of the error leave it as it was.
C25_LoadingIffOutstanding ==
  [][ /\ (isLoading <=> pending # <<>>)
      /\ (isLoading' <=> pending' # <<>>)
      /\ (lastEvent'.op \in Settles /\ pending' = <<>>) => ~isLoading'
      /\ lastEvent'.op \in {"goBack", "resetApp", "selectVideo", "selectAssessment",
                            "dismissError"} => isLoading' = isLoading
    ]_vars

\* C25 witness: a reset was confirmed while a call was awaited, and the flag
\* is still true.
C25_Witness ==
  /\ lastEvent.op = "resetApp" /\ lastEvent.confirmed
  /\ isLoading /\ pending # <<>>

====
